---- MODULE Spec2Model ----
(***************************************************************************)
(* EmcEspNow: peer discovery and role-based state synchronisation over     *)
(* ESP-NOW.  One EmcEspNow object together with the ESP-NOW transport it   *)
(* drives; the radio, the application loop (main.cpp) and the clock are    *)
(* the environment.  Every handler is an operator from the object's state  *)
(* to its state after the call; an action applies one handler.             *)
(***************************************************************************)
EXTENDS Integers, Sequences, FiniteSets, TLC

VARIABLES
    node,       \* the EmcEspNow object and the state of its ESP-NOW transport
    now,        \* millis()
    op,         \* what is remembered of the last step (observation only)
    crashed,    \* the out-of-bounds read of update() ended the program
    other,      \* a second EmcEspNow node on the same channel (two-node runs)
    air,        \* datagrams under way between the two nodes (two-node runs)
    pc,         \* where update() and onReceive() stand when they interleave
    hist        \* what a run remembers of its past (observation only)

vars == <<node, now, op, crashed, other, air, pc, hist>>

\* what the runs of a single node with atomic handlers leave alone
scene == <<other, air, pc, hist>>

----------------------------------------------------------------------------
(* Bounds of the model *)

MaxInflight == 1    \* sends the transport holds before esp_now_send refuses
MaxTicks == 1       \* how often the clock advances
TickMs == 101       \* milliseconds per clock advance

(* Program constants *)

BROADCAST_SLAVE_MESSAGE == "EMCFFBV2 Slave!"
BROADCAST_MASTER_MESSAGE == "EMCFFBV2 Master!"

SlaveDataSize == 80         \* sizeof(slave_data_t)
MasterCmdSize == 12         \* sizeof(master_cmd_t)
SlaveMsgLen == Len(BROADCAST_SLAVE_MESSAGE)     \* strlen(BROADCAST_SLAVE_MESSAGE)
MasterMsgLen == Len(BROADCAST_MASTER_MESSAGE)   \* strlen(BROADCAST_MASTER_MESSAGE)
BroadcastPeriod == 100      \* millis() - broadcastMillis > 100
Uint8Mod == 256             \* uint8_t peerID

BROADCAST_MAC_SLAVE == <<255, 255, 255, 255, 255, 253>>
BROADCAST_MAC_MASTER == <<255, 255, 255, 255, 255, 254>>

ESP_NOW_SEND_SUCCESS == "ESP_NOW_SEND_SUCCESS"
ESP_NOW_SEND_FAIL == "ESP_NOW_SEND_FAIL"

\* link addresses of the remote nodes
Macs == {<<2, 0, 0, 0, 0, 1>>, <<2, 0, 0, 0, 0, 2>>}
OwnMac == <<2, 0, 0, 0, 0, 0>>
Addrs == Macs \cup {BROADCAST_MAC_SLAVE, BROADCAST_MAC_MASTER}

\* what reading peers[1] past the end of the vector can yield as an address
\* (the read may also end the program)
JunkAddrs == Addrs \cup {OwnMac}

\* sample contents of button_data[16]
Bytes == {0, 1}

\* slave_data_t: button_data[16] and data[64], each block as one value
slave_data_t == [button_data : Bytes, data : {0}]
ZeroSlaveData == [button_data |-> 0, data |-> 0]

\* master_cmd_t, packed: the all-zero command and one other (value in tenths)
ZeroCmd == [mainId |-> 0, subId |-> 0, index1 |-> 0, index2 |-> 0,
            value |-> 0, valueInt |-> 0]
SomeCmd == [mainId |-> 5, subId |-> 1, index1 |-> 0, index2 |-> 2,
            value |-> 35, valueInt |-> -1]
master_cmd_t == {ZeroCmd, SomeCmd}

----------------------------------------------------------------------------
(* The object after construction (member initialisers of EmcEspNow.h) and  *)
(* the transport before esp_now_init().                                    *)

InitNode ==
    [ isMaster          |-> FALSE,
      masterHasCommand  |-> FALSE,
      instance          |-> FALSE,          \* instance != nullptr
      peers             |-> <<>>,
      slaveSendData     |-> ZeroSlaveData,
      lastSlaveSendData |-> ZeroSlaveData,
      masterRecvData    |-> ZeroSlaveData,
      masterCmdData     |-> ZeroCmd,
      lastmasterCmdData |-> ZeroCmd,
      broadcastMillis   |-> 0,
      espInit           |-> FALSE,          \* esp_now_init() done, not deinit
      espCb             |-> FALSE,          \* send/recv callbacks registered
      espPeers          |-> {},             \* the transport's peer list
      espQueue          |-> <<>>,           \* accepted sends awaiting completion
      espDepth          |-> MaxInflight,    \* sends the transport can hold
      out               |-> <<>> ]          \* esp_now_send calls of this handler

----------------------------------------------------------------------------
(* ESP-NOW transport, as the handlers use it *)

esp_now_is_peer_exist(s, a) == s.espInit /\ a \in s.espPeers

\* ESP_OK iff the transport is initialised and the peer is not yet listed
esp_now_add_peer_ok(s, a) == s.espInit /\ a \notin s.espPeers

\* mutant: the transport keeps the peer
esp_now_del_peer_keeps(s, a) == s

esp_now_del_peer(s, a) == [s EXCEPT !.espPeers = @ \ {a}]

\* The call is recorded in out; the transport accepts it (and will report a
\* completion) only for a listed peer and while it has room.
esp_now_send(s, dst, data, len) ==
    LET dg == [dst |-> dst, data |-> data, len |-> len]
        accepted == /\ s.espInit
                    /\ dst \in s.espPeers
                    /\ Len(s.espQueue) < s.espDepth
    IN  [s EXCEPT !.out = Append(@, dg),
                  !.espQueue = IF accepted THEN Append(@, dg) ELSE @]

----------------------------------------------------------------------------
(* EmcEspNow *)

\* mutant: the reset forgets the master's last-received slave snapshot
resetData_keepsReceived(s) ==
    [s EXCEPT !.slaveSendData = ZeroSlaveData,
              !.lastSlaveSendData = ZeroSlaveData,
              !.masterCmdData = ZeroCmd,
              !.lastmasterCmdData = ZeroCmd]

resetData(s) ==
    [s EXCEPT !.slaveSendData = ZeroSlaveData,
              !.lastSlaveSendData = ZeroSlaveData,
              !.masterRecvData = ZeroSlaveData,
              !.masterCmdData = ZeroCmd,
              !.lastmasterCmdData = ZeroCmd]

\* mutant: the peer is appended without asking whether it exists already
addPeer_noExistCheck(s, peer_addr) ==
    IF s.espInit
    THEN [s EXCEPT !.espPeers = @ \cup {peer_addr},
                   !.peers = Append(@, [peerID |-> Len(s.peers) % Uint8Mod,
                                        peer_mac |-> peer_addr])]
    ELSE s

addPeer(s, peer_addr) ==
    IF ~esp_now_is_peer_exist(s, peer_addr)
    THEN IF esp_now_add_peer_ok(s, peer_addr)
         THEN [s EXCEPT !.espPeers = @ \cup {peer_addr},
                        !.peers = Append(@, [peerID |-> Len(s.peers) % Uint8Mod,
                                             peer_mac |-> peer_addr])]
         ELSE s
    ELSE s

\* mutant: the last element goes, whatever i
erase_last(q, i) == SubSeq(q, 1, Len(q) - 1)

\* the sequence without its i-th element (vector::erase)
erase(q, i) == [j \in 1..(Len(q) - 1) |-> IF j < i THEN q[j] ELSE q[j + 1]]

\* mutant: the entry is erased but stays registered with the transport
removePeer_keepsRegistered(s, peer_mac) ==
    LET r == resetData(s)
        hits == {i \in 1..Len(r.peers) : r.peers[i].peer_mac = peer_mac}
    IN  IF hits = {}
        THEN r
        ELSE LET it == CHOOSE i \in hits : \A j \in hits : i <= j
             IN  [r EXCEPT !.peers = erase(@, it)]

removePeer(s, peer_mac) ==
    LET r == resetData(s)
        hits == {i \in 1..Len(r.peers) : r.peers[i].peer_mac = peer_mac}
    IN  IF hits = {}
        THEN r
        ELSE LET it == CHOOSE i \in hits : \A j \in hits : i <= j
             IN  [esp_now_del_peer(r, peer_mac) EXCEPT !.peers = erase(@, it)]

begin(s, isMaster, initOk) ==
    IF ~initOk
    THEN s
    ELSE LET s1 == [s EXCEPT !.espInit = TRUE,
                             !.espCb = TRUE,
                             !.isMaster = isMaster,
                             !.instance = TRUE]
             s2 == IF ~isMaster
                   THEN addPeer(s1, BROADCAST_MAC_SLAVE)
                   ELSE addPeer(s1, BROADCAST_MAC_MASTER)
         IN  resetData(s2)

\* mutant: end() leaves the peers registered with the transport
end_keepsRegistered(s) ==
    LET r == resetData(s)
    IN  [r EXCEPT !.espCb = FALSE,
                  !.espInit = FALSE,
                  !.espQueue = <<>>,
                  !.instance = FALSE,
                  !.peers = <<>>]

\* mutant: end() forgets peers.clear()
end_keepsPeers(s) ==
    LET r == resetData(s)
    IN  [r EXCEPT !.espCb = FALSE,
                  !.espPeers = {},
                  !.espInit = FALSE,
                  !.espQueue = <<>>,
                  !.instance = FALSE]

end(s) ==
    LET r == resetData(s)
    IN  [r EXCEPT !.espCb = FALSE,
                  !.espPeers = {},
                  !.espInit = FALSE,
                  !.espQueue = <<>>,
                  !.instance = FALSE,
                  !.peers = <<>>]

\* (uint8_t *)&BROADCAST_..._MESSAGE: the bytes sent are those of the object
\* starting at the pointer member, not the text the member points to
bytesAt(member) == [bytesAt |-> member]

sendBroadcast(s) ==
    IF ~s.isMaster
    THEN esp_now_send(s, BROADCAST_MAC_SLAVE,
                      bytesAt("BROADCAST_SLAVE_MESSAGE"), SlaveMsgLen)
    ELSE esp_now_send(s, BROADCAST_MAC_MASTER,
                      bytesAt("BROADCAST_MASTER_MESSAGE"), MasterMsgLen)

sendUnicast(s, peer_mac, data, len) == esp_now_send(s, peer_mac, data, len)

\* for (uint8_t i = 1; i < peers.size(); i++) sendUnicast(peers[i].peer_mac, ...)
\* (i is the 0-based index; peers[i] is the TLA+ element i + 1)
RECURSIVE masterSendLoop(_, _)
masterSendLoop(s, i) ==
    IF i < Len(s.peers)
    THEN masterSendLoop(
             sendUnicast(s, s.peers[i + 1].peer_mac, s.masterCmdData, MasterCmdSize),
             (i + 1) % Uint8Mod)
    ELSE s

\* mutant: the snapshot is compared against all-zero, not against Last-Sent
slaveDataChanged_vsZero(s) == s.slaveSendData # ZeroSlaveData

\* memcmp(&slaveSendData, &lastSlaveSendData, sizeof(slave_data_t)) != 0
slaveDataChanged(s) == s.slaveSendData # s.lastSlaveSendData

\* update() indexes peers[1] although the vector has fewer than two entries
updateReadsPastEnd(s) ==
    /\ ~(~s.isMaster /\ Len(s.peers) = 1)
    /\ ~s.isMaster
    /\ ~s.masterHasCommand
    /\ slaveDataChanged(s)
    /\ Len(s.peers) < 2

\* mutant: the period counts as over when exactly 100 ms have passed
elapsedOver_atLeast(millis, last, period) ==
    IF millis >= last THEN millis - last >= period ELSE TRUE

\* millis() - broadcastMillis > 100 in unsigned long arithmetic: when the
\* clock has wrapped below last, the difference is 2^32 - (last - millis),
\* which exceeds the period for every last - millis the model can hold
elapsedOver(millis, last, period) ==
    IF millis >= last THEN millis - last > period ELSE TRUE

\* mutant: a master with a directory of size 1 searches as a slave does
update_searchAnyRole(s, millis, junk) ==
    IF Len(s.peers) = 1
    THEN IF elapsedOver(millis, s.broadcastMillis, BroadcastPeriod)
         THEN sendBroadcast([s EXCEPT !.broadcastMillis = millis])
         ELSE s
    ELSE IF s.isMaster
         THEN masterSendLoop(s, 1)
         ELSE IF s.masterHasCommand
              THEN s
              ELSE IF slaveDataChanged(s)
                   THEN LET mac == IF Len(s.peers) >= 2
                                   THEN s.peers[2].peer_mac
                                   ELSE junk
                            s1 == sendUnicast(s, mac, s.slaveSendData, SlaveDataSize)
                        IN  [s1 EXCEPT !.lastSlaveSendData = s.slaveSendData]
                   ELSE s

\* junk: the address an out-of-bounds peers[1] yields
update(s, millis, junk) ==
    IF ~s.isMaster /\ Len(s.peers) = 1
    THEN IF elapsedOver(millis, s.broadcastMillis, BroadcastPeriod)
         THEN sendBroadcast([s EXCEPT !.broadcastMillis = millis])
         ELSE s
    ELSE IF s.isMaster
         THEN masterSendLoop(s, 1)
         ELSE IF s.masterHasCommand
              THEN s
              ELSE IF slaveDataChanged(s)
                   THEN LET mac == IF Len(s.peers) >= 2
                                   THEN s.peers[2].peer_mac
                                   ELSE junk
                            s1 == sendUnicast(s, mac, s.slaveSendData, SlaveDataSize)
                        IN  [s1 EXCEPT !.lastSlaveSendData = s.slaveSendData]
                   ELSE s

\* mutant: a snapshot is stored only over an all-zero buffer
onReceive_keepsOlder(s, src_addr, des_addr, data, len) ==
    IF s.isMaster
    THEN LET s1 == IF des_addr = BROADCAST_MAC_SLAVE
                   THEN LET b == sendBroadcast(s)
                        IN  IF ~esp_now_is_peer_exist(b, src_addr)
                            THEN addPeer(b, src_addr)
                            ELSE b
                   ELSE s
         IN  IF len = SlaveDataSize /\ s1.masterRecvData = ZeroSlaveData
             THEN [s1 EXCEPT !.masterRecvData = data]
             ELSE s1
    ELSE LET s1 == IF des_addr = BROADCAST_MAC_MASTER
                   THEN IF ~esp_now_is_peer_exist(s, src_addr)
                        THEN addPeer(s, src_addr)
                        ELSE s
                   ELSE s
         IN  IF len = MasterCmdSize /\ s1.masterCmdData = ZeroCmd
             THEN [s1 EXCEPT !.masterCmdData = data]
             ELSE s1

\* mutant: a datagram counts as a discovery broadcast whatever its destination
onReceive_anyDestination(s, src_addr, des_addr, data, len) ==
    IF s.isMaster
    THEN LET b == sendBroadcast(s)
             s1 == IF ~esp_now_is_peer_exist(b, src_addr)
                   THEN addPeer(b, src_addr)
                   ELSE b
         IN  IF len = SlaveDataSize
             THEN [s1 EXCEPT !.masterRecvData = data]
             ELSE s1
    ELSE LET s1 == IF ~esp_now_is_peer_exist(s, src_addr)
                   THEN addPeer(s, src_addr)
                   ELSE s
         IN  IF len = MasterCmdSize
             THEN [s1 EXCEPT !.masterCmdData = data]
             ELSE s1

\* mutant: the master answers a discovery broadcast only of an unknown sender
onReceive_replyIfUnknown(s, src_addr, des_addr, data, len) ==
    IF s.isMaster
    THEN LET s1 == IF des_addr = BROADCAST_MAC_SLAVE
                   THEN IF ~esp_now_is_peer_exist(s, src_addr)
                        THEN addPeer(sendBroadcast(s), src_addr)
                        ELSE s
                   ELSE s
         IN  IF len = SlaveDataSize
             THEN [s1 EXCEPT !.masterRecvData = data]
             ELSE s1
    ELSE LET s1 == IF des_addr = BROADCAST_MAC_MASTER
                   THEN IF ~esp_now_is_peer_exist(s, src_addr)
                        THEN addPeer(s, src_addr)
                        ELSE s
                   ELSE s
         IN  IF len = MasterCmdSize
             THEN [s1 EXCEPT !.masterCmdData = data]
             ELSE s1

onReceive(s, src_addr, des_addr, data, len) ==
    IF s.isMaster
    THEN LET s1 == IF des_addr = BROADCAST_MAC_SLAVE
                   THEN LET b == sendBroadcast(s)
                        IN  IF ~esp_now_is_peer_exist(b, src_addr)
                            THEN addPeer(b, src_addr)
                            ELSE b
                   ELSE s
         IN  IF len = SlaveDataSize
             THEN IF s1.masterRecvData # data
                  THEN [s1 EXCEPT !.masterRecvData = data]
                  ELSE s1
             ELSE s1
    ELSE LET s1 == IF des_addr = BROADCAST_MAC_MASTER
                   THEN IF ~esp_now_is_peer_exist(s, src_addr)
                        THEN addPeer(s, src_addr)
                        ELSE s
                   ELSE s
         IN  IF len = MasterCmdSize
             THEN LET s2 == [s1 EXCEPT !.masterHasCommand = TRUE]
                      s3 == IF s2.masterCmdData # data
                            THEN [s2 EXCEPT !.masterCmdData = data]
                            ELSE s2
                  IN  [s3 EXCEPT !.masterHasCommand = FALSE]
             ELSE s1

onSend(s, mac_addr, status) ==
    IF status = ESP_NOW_SEND_FAIL
    THEN removePeer(s, mac_addr)
    ELSE s

----------------------------------------------------------------------------
(* Actions *)

\* What is remembered of the last step: a handler call that was given a link
\* address the directory held before the call (hit), with its name and ok
\* (onSend: the status was ESP_NOW_SEND_SUCCESS; TRUE otherwise).  Any other
\* step leaves NoOp.
NoOp == [name |-> "none", hit |-> FALSE, ok |-> TRUE]
Op(name, hit, ok) == IF hit THEN [name |-> name, hit |-> hit, ok |-> ok] ELSE NoOp

\* a handler starts with nothing sent yet
fresh(s) == [s EXCEPT !.out = <<>>]

PeerIDs(s) == {s.peers[i].peerID : i \in 1..Len(s.peers)}
PeerMacs(s) == {s.peers[i].peer_mac : i \in 1..Len(s.peers)}

\* the scene of a run of one node with atomic handlers: no second node,
\* nothing under way, no handler in progress, nothing remembered
NoScene ==
    /\ other = InitNode
    /\ air = <<>>
    /\ pc = [update |-> "idle", onReceive |-> "idle"]
    /\ hist = <<>>

Init ==
    /\ node = InitNode
    /\ now = 0
    /\ op = Op("construct", FALSE, TRUE)
    /\ crashed = FALSE
    /\ NoScene

\* setup(): espNow.begin(role); esp_now_init() may fail
Begin(isMaster, initOk) ==
    /\ ~crashed
    /\ ~node.espInit
    /\ node' = begin(fresh(node), isMaster, initOk)
    /\ op' = Op("begin", FALSE, initOk)
    /\ UNCHANGED <<now, crashed>>
    /\ UNCHANGED scene

\* enterLowPowerMode(): espNow.end()
End ==
    /\ ~crashed
    /\ node' = end(fresh(node))
    /\ op' = Op("end", FALSE, TRUE)
    /\ UNCHANGED <<now, crashed>>
    /\ UNCHANGED scene

\* the application adds a peer by its link address
AddPeer(a) ==
    /\ ~crashed
    /\ node' = addPeer(fresh(node), a)
    /\ op' = Op("addPeer", a \in PeerMacs(node), TRUE)
    /\ UNCHANGED <<now, crashed>>
    /\ UNCHANGED scene

\* the application removes a peer by its link address
RemovePeer(a) ==
    /\ ~crashed
    /\ node' = removePeer(fresh(node), a)
    /\ op' = Op("removePeer", a \in PeerMacs(node), TRUE)
    /\ UNCHANGED <<now, crashed>>
    /\ UNCHANGED scene

\* loop(): espNow.update().  Indexing peers[1] past the end of the vector
\* either ends the program or yields some address.
Update ==
    /\ ~crashed
    /\ IF updateReadsPastEnd(node)
       THEN /\ op' = Op("update", FALSE, FALSE)
            /\ \/ crashed' = TRUE /\ node' = fresh(node)
               \/ /\ crashed' = FALSE
                  /\ \E junk \in JunkAddrs : node' = update(fresh(node), now, junk)
       ELSE /\ op' = Op("update", FALSE, TRUE)
            /\ crashed' = FALSE
            /\ node' = update(fresh(node), now, OwnMac)
    /\ UNCHANGED <<now>>
    /\ UNCHANGED scene

\* payloads a datagram of the given length can carry
Payloads(len) ==
    IF len = SlaveDataSize THEN slave_data_t
    ELSE IF len = MasterCmdSize THEN master_cmd_t
    ELSE IF len = SlaveMsgLen THEN {bytesAt("BROADCAST_SLAVE_MESSAGE")}
    ELSE {bytesAt("BROADCAST_MASTER_MESSAGE")}

RecvDests == {OwnMac, BROADCAST_MAC_SLAVE, BROADCAST_MAC_MASTER}
RecvLens == {SlaveDataSize, MasterCmdSize, SlaveMsgLen, MasterMsgLen}

\* the receive callback, while registered: a datagram the radio delivers
Receive(src, des, data, len) ==
    /\ ~crashed
    /\ node.espCb
    /\ node' = onReceive(fresh(node), src, des, data, len)
    /\ op' = Op("onReceive", src \in PeerMacs(node), TRUE)
    /\ UNCHANGED <<now, crashed>>
    /\ UNCHANGED scene

\* the send callback, while registered: the oldest accepted send completes
SendDone(status) ==
    /\ ~crashed
    /\ node.espCb
    /\ node.espQueue # <<>>
    /\ LET dg == Head(node.espQueue)
       IN  /\ node' = onSend([fresh(node) EXCEPT !.espQueue = Tail(@)],
                             dg.dst, status)
           /\ op' = Op("onSend", dg.dst \in PeerMacs(node),
                       status = ESP_NOW_SEND_SUCCESS)
    /\ UNCHANGED <<now, crashed>>
    /\ UNCHANGED scene

\* loop(): the input scan rewrites slaveSendData.button_data
WriteButtons(b) ==
    /\ ~crashed
    /\ ~node.isMaster
    /\ node' = [fresh(node) EXCEPT !.slaveSendData.button_data = b]
    /\ op' = Op("application", FALSE, TRUE)
    /\ UNCHANGED <<now, crashed>>
    /\ UNCHANGED scene

\* the master's application sets the command to distribute
WriteCommand(c) ==
    /\ ~crashed
    /\ node.isMaster
    /\ node' = [fresh(node) EXCEPT !.masterCmdData = c]
    /\ op' = Op("application", FALSE, TRUE)
    /\ UNCHANGED <<now, crashed>>
    /\ UNCHANGED scene

\* loop(): the command consumer copies a command it has not seen yet
Consume ==
    /\ ~crashed
    /\ ~node.isMaster
    /\ node.masterCmdData # node.lastmasterCmdData
    /\ node' = [fresh(node) EXCEPT !.lastmasterCmdData = node.masterCmdData]
    /\ op' = Op("application", FALSE, TRUE)
    /\ UNCHANGED <<now, crashed>>
    /\ UNCHANGED scene

Tick ==
    /\ ~crashed
    /\ now < MaxTicks * TickMs
    /\ now' = now + TickMs
    /\ node' = fresh(node)
    /\ op' = Op("application", FALSE, TRUE)
    /\ UNCHANGED <<crashed>>
    /\ UNCHANGED scene

Next ==
    \/ \E isMaster \in BOOLEAN, initOk \in BOOLEAN : Begin(isMaster, initOk)
    \/ End
    \/ \E a \in Macs : AddPeer(a)
    \/ \E a \in Macs : RemovePeer(a)
    \/ Update
    \/ \E src \in Macs, des \in RecvDests, len \in RecvLens :
          \E data \in Payloads(len) : Receive(src, des, data, len)
    \/ \E status \in {ESP_NOW_SEND_SUCCESS, ESP_NOW_SEND_FAIL} : SendDone(status)
    \/ \E b \in Bytes : WriteButtons(b)
    \/ \E c \in master_cmd_t : WriteCommand(c)
    \/ Consume
    \/ Tick

Spec == Init /\ [][Next]_vars

----------------------------------------------------------------------------
(* Properties *)

Unicast(dst, data, len) == [dst |-> dst, data |-> data, len |-> len]

CachesZero(s) ==
    /\ s.lastSlaveSendData = ZeroSlaveData
    /\ s.lastmasterCmdData = ZeroCmd
    /\ s.masterRecvData = ZeroSlaveData
    /\ s.masterCmdData = ZeroCmd

\* the broadcast identity begin() adds for the role
RoleBroadcast(s) ==
    IF s.isMaster THEN BROADCAST_MAC_MASTER ELSE BROADCAST_MAC_SLAVE

\* C1: a paired slave cycle (directory size >= 2, exclusion flag clear) emits
\* no unicast when the outgoing snapshot equals Last-Sent, and otherwise
\* exactly one unicast of the whole current snapshot to the peer at index 1,
\* a node address, after which Last-Sent equals the outgoing snapshot.
C1_PairedSlaveDiffedSend ==
    [][ ( /\ Update
          /\ ~node.isMaster
          /\ Len(node.peers) >= 2
          /\ ~node.masterHasCommand )
        => /\ ~crashed'
           /\ node'.slaveSendData = node.slaveSendData
           /\ IF node.slaveSendData = node.lastSlaveSendData
              THEN /\ node'.out = <<>>
                   /\ node'.lastSlaveSendData = node.lastSlaveSendData
              ELSE /\ node'.out = << Unicast(node.peers[2].peer_mac,
                                            node.slaveSendData, SlaveDataSize) >>
                   /\ node.peers[2].peer_mac \in Macs
                   /\ node'.lastSlaveSendData = node'.slaveSendData
      ]_vars

\* C1 witness: a paired slave cycle has just sent the all-zero snapshot,
\* which it does only after a non-zero one was Last-Sent.
C1_Witness ==
    /\ ~node.isMaster
    /\ Len(node.peers) >= 2
    /\ Len(node.out) = 1
    /\ node.out[1].len = SlaveDataSize
    /\ node.out[1].data = ZeroSlaveData
    /\ node.lastSlaveSendData = ZeroSlaveData

\* C2: a master cycle emits exactly one unicast of the current command to
\* every directory entry at index >= 1, none to index 0, whether or not the
\* command changed; with n non-broadcast peers that is n identical unicasts.
C2_MasterRoundEveryPeer ==
    [][ (Update /\ node.isMaster)
        => LET P == node.peers
               O == node'.out
               n == Cardinality({i \in 1..Len(P) :
                        P[i].peer_mac \notin {BROADCAST_MAC_SLAVE,
                                              BROADCAST_MAC_MASTER}})
           IN  /\ \A k \in 1..Len(O) :
                     /\ O[k].data = node.masterCmdData
                     /\ O[k].len = MasterCmdSize
               /\ \A i \in 2..Len(P) :
                     Cardinality({k \in 1..Len(O) : O[k].dst = P[i].peer_mac}) = 1
               /\ Len(P) >= 1 =>
                     {k \in 1..Len(O) : O[k].dst = P[1].peer_mac} = {}
               /\ Len(O) = n
      ]_vars

\* C3 as stated: every failure notification shrinks the directory by exactly
\* one entry and leaves the four cached snapshots all-zero.
C3_EveryFailureEvicts ==
    [][ SendDone(ESP_NOW_SEND_FAIL)
        => /\ Len(node'.peers) = Len(node.peers) - 1
           /\ CachesZero(node')
      ]_vars

\* C3 amended: a failure notification leaves the four cached snapshots
\* all-zero; it removes exactly the entry of the destination when the
\* destination is in the directory and leaves the directory alone otherwise.
C3_FailureEvictsKnownPeer ==
    [][ SendDone(ESP_NOW_SEND_FAIL)
        => LET dst == Head(node.espQueue).dst
           IN  /\ CachesZero(node')
               /\ IF dst \in PeerMacs(node)
                  THEN /\ Len(node'.peers) = Len(node.peers) - 1
                       /\ dst \notin PeerMacs(node')
                  ELSE node'.peers = node.peers
      ]_vars

\* C3 witness: a failure notification has just evicted a peer; a snapshot
\* had been received and a command set before.
C3_Witness ==
    /\ op.name = "onSend"
    /\ ~op.ok
    /\ op.hit
    /\ Len(node.peers) >= 2
    /\ CachesZero(node)

\* C4: after addPeer(a), from any reachable directory, a second addPeer(a)
\* leaves the directory (size and contents) as the first left it; addPeer of
\* an address that is in the directory changes nothing.
C4_AddPeerIdempotent ==
    [][ \A a \in Macs :
           AddPeer(a)
           => /\ addPeer(node', a).peers = node'.peers
              /\ a \in PeerMacs(node) => node'.peers = node.peers
      ]_vars

\* C4 witness: addPeer was called for an address the directory already held.
C4_Witness ==
    /\ op.name = "addPeer"
    /\ op.hit
    /\ Len(node.peers) >= 3

\* C5: a slave's update() reads directory index 1 only when the directory
\* has at least two entries.
C5_SlaveIndexOneGuarded ==
    [][ (Update /\ ~node.isMaster) => ~updateReadsPastEnd(node) ]_vars

\* C6: from a successful begin() until end() the directory is non-empty and
\* its entry at index 0 is the role's broadcast identity, whatever cycles,
\* receptions and send completions happen.
C6_BroadcastAtIndexZero ==
    node.espInit =>
        /\ Len(node.peers) >= 1
        /\ node.peers[1].peer_mac = RoleBroadcast(node)

\* C7: no two entries of the peer directory hold the same link address.
C7_UniqueAddresses ==
    \A i, j \in 1..Len(node.peers) :
        i # j => node.peers[i].peer_mac # node.peers[j].peer_mac

\* C7 witness: a datagram from a sender already in a directory of three
\* entries has just been handled.
C7_Witness ==
    /\ op.name = "onReceive"
    /\ op.hit
    /\ Len(node.peers) >= 3

\* C8: no two directory entries carry the same peerID, and the peerID given
\* to a newly added peer is not one the directory has given out and still
\* holds (what the claim says of every index given out in the session, said
\* of those still in the directory), as long as index 0 holds the broadcast
\* identity.
C8_IndexNeverReused ==
    /\ []( ( /\ Len(node.peers) >= 1
             /\ node.peers[1].peer_mac = RoleBroadcast(node) )
           => \A i, j \in 1..Len(node.peers) :
                 i # j => node.peers[i].peerID # node.peers[j].peerID )
    /\ [][ ( /\ Len(node'.peers) = Len(node.peers) + 1
             /\ Len(node.peers) >= 1
             /\ node.peers[1].peer_mac = RoleBroadcast(node) )
           => node'.peers[Len(node'.peers)].peerID \notin PeerIDs(node)
         ]_vars

\* C9: once a slave knows its master (directory size >= 2), its Last-Sent
\* snapshot takes a new non-zero value V only in the step in which a send
\* of V is reported successful.
C9_LastSentOnlyAfterSuccess ==
    [][ ( /\ ~node.isMaster
          /\ Len(node.peers) >= 2
          /\ node'.lastSlaveSendData # node.lastSlaveSendData
          /\ node'.lastSlaveSendData # ZeroSlaveData )
        => /\ SendDone(ESP_NOW_SEND_SUCCESS)
           /\ Head(node.espQueue).len = SlaveDataSize
           /\ Head(node.espQueue).data = node'.lastSlaveSendData
      ]_vars

\* C10: in a session, update, receive handling, send-completion handling,
\* addPeer and removePeer leave the node's own outgoing snapshot alone
\* (slaveSendData on a slave, masterCmdData on a master).
C10_OutgoingSnapshotUntouched ==
    [][ ( /\ node.espInit
          /\ \/ Update
             \/ \E src \in Macs, des \in RecvDests, len \in RecvLens :
                   \E data \in Payloads(len) : Receive(src, des, data, len)
             \/ \E status \in {ESP_NOW_SEND_SUCCESS, ESP_NOW_SEND_FAIL} :
                   SendDone(status)
             \/ \E a \in Macs : AddPeer(a) \/ RemovePeer(a) )
        => IF node.isMaster
           THEN node'.masterCmdData = node.masterCmdData
           ELSE node'.slaveSendData = node.slaveSendData
      ]_vars

\* C11: a slave whose directory has size 1 before and after a received
\* datagram of command size keeps its live command snapshot as it was.
C11_SearchingIgnoresCommand ==
    [][ \A src \in Macs, des \in RecvDests, data \in master_cmd_t :
          ( /\ Receive(src, des, data, MasterCmdSize)
            /\ ~node.isMaster
            /\ Len(node.peers) = 1
            /\ Len(node'.peers) = 1 )
          => node'.masterCmdData = node.masterCmdData
      ]_vars

----------------------------------------------------------------------------
(* A slave on a fine clock: discovery broadcasts and their times, loss and *)
(* rediscovery of the master.  hist remembers when the last two discovery  *)
(* broadcasts were emitted (-1: none yet), and how far the slave is        *)
(* through: a snapshot unicast from a paired cycle ("sent", the snapshot   *)
(* in hist.sent), then the master evicted by a send failure ("evicted"),   *)
(* then a peer learned again ("rediscovered"), until the next paired       *)
(* cycle; and whether the last begin() failed at esp_now_init().           *)

SearchTickMs == 50      \* milliseconds per clock advance
SearchMaxTicks == 6     \* how often the clock advances

\* the discovery broadcast of a slave, as sendBroadcast() emits it
SlaveBroadcast ==
    [dst |-> BROADCAST_MAC_SLAVE,
     data |-> bytesAt("BROADCAST_SLAVE_MESSAGE"),
     len |-> SlaveMsgLen]

\* hist after a handler that left the sends out: a discovery broadcast among
\* them becomes the last one
noteBroadcast(h, out, millis) ==
    IF \E k \in 1..Len(out) : out[k] = SlaveBroadcast
    THEN [h EXCEPT !.last = millis, !.prev = h.last]
    ELSE h

\* s is a slave with a peer behind the entry at index 0
Paired(s) == ~s.isMaster /\ Len(s.peers) >= 2

\* hist after a cycle that began in state s and left the sends out
noteCycle(h, s, out) ==
    IF Paired(s) /\ Len(out) = 1 /\ out[1].len = SlaveDataSize
    THEN [h EXCEPT !.phase = "sent", !.sent = out[1].data]
    ELSE IF Paired(s) /\ h.phase = "rediscovered"
         THEN [h EXCEPT !.phase = "none"]
         ELSE h

\* hist after onSend(mac_addr, status) in state s
noteCompletion(h, s, mac_addr, status) ==
    IF /\ status = ESP_NOW_SEND_FAIL
       /\ h.phase \in {"sent", "rediscovered"}
       /\ Paired(s)
       /\ s.peers[2].peer_mac = mac_addr
    THEN [h EXCEPT !.phase = "evicted"]
    ELSE h

\* hist after a receive that took the directory from s to t
noteReceive(h, s, t) ==
    IF h.phase = "evicted" /\ ~Paired(s) /\ Paired(t)
    THEN [h EXCEPT !.phase = "rediscovered"]
    ELSE h

SearchInit ==
    /\ node = InitNode
    /\ now = 0
    /\ op = NoOp
    /\ crashed = FALSE
    /\ other = InitNode
    /\ air = <<>>
    /\ pc = [update |-> "idle", onReceive |-> "idle"]
    /\ hist = [last |-> -1, prev |-> -1, phase |-> "none", sent |-> ZeroSlaveData,
               beginFailed |-> FALSE]

\* setup(): espNow.begin(false); esp_now_init() may fail
SearchBegin(initOk) ==
    /\ ~crashed
    /\ ~node.espInit
    /\ node' = begin(fresh(node), FALSE, initOk)
    /\ hist' = [hist EXCEPT !.beginFailed = ~initOk]
    /\ UNCHANGED <<now, op, crashed, other, air, pc>>

\* enterLowPowerMode(): espNow.end()
SearchEnd ==
    /\ ~crashed
    /\ node.espInit
    /\ node' = end(fresh(node))
    /\ hist' = [hist EXCEPT !.phase = "none"]
    /\ UNCHANGED <<now, op, crashed, other, air, pc>>

\* loop(): espNow.update()
SearchUpdate ==
    /\ ~crashed
    /\ IF updateReadsPastEnd(node)
       THEN \/ crashed' = TRUE /\ node' = fresh(node)
            \/ /\ crashed' = FALSE
               /\ \E junk \in JunkAddrs : node' = update(fresh(node), now, junk)
       ELSE /\ crashed' = FALSE
            /\ node' = update(fresh(node), now, OwnMac)
    /\ hist' = noteCycle(noteBroadcast(hist, node'.out, now), node, node'.out)
    /\ UNCHANGED <<now, op, other, air, pc>>

\* the receive callback: the master's broadcast or a command arrives
SearchReceive(src, des, data, len) ==
    /\ ~crashed
    /\ node.espCb
    /\ node' = onReceive(fresh(node), src, des, data, len)
    /\ hist' = noteReceive(hist, node, node')
    /\ UNCHANGED <<now, op, crashed, other, air, pc>>

\* the send callback: the oldest accepted send completes
SearchSendDone(status) ==
    /\ ~crashed
    /\ node.espCb
    /\ node.espQueue # <<>>
    /\ node' = onSend([fresh(node) EXCEPT !.espQueue = Tail(@)],
                      Head(node.espQueue).dst, status)
    /\ hist' = noteCompletion(hist, node, Head(node.espQueue).dst, status)
    /\ UNCHANGED <<now, op, crashed, other, air, pc>>

\* loop(): the input scan rewrites slaveSendData.button_data
SearchWriteButtons(b) ==
    /\ ~crashed
    /\ node' = [fresh(node) EXCEPT !.slaveSendData.button_data = b]
    /\ UNCHANGED <<now, op, crashed, other, air, pc, hist>>

SearchTick ==
    /\ ~crashed
    /\ now < SearchMaxTicks * SearchTickMs
    /\ now' = now + SearchTickMs
    /\ node' = fresh(node)
    /\ UNCHANGED <<op, crashed, other, air, pc, hist>>

SearchNext ==
    \/ \E initOk \in BOOLEAN : SearchBegin(initOk)
    \/ SearchEnd
    \/ SearchUpdate
    \/ \E src \in Macs :
          \/ SearchReceive(src, BROADCAST_MAC_MASTER,
                           bytesAt("BROADCAST_MASTER_MESSAGE"), MasterMsgLen)
          \/ \E data \in master_cmd_t :
                SearchReceive(src, OwnMac, data, MasterCmdSize)
    \/ \E status \in {ESP_NOW_SEND_SUCCESS, ESP_NOW_SEND_FAIL} :
          SearchSendDone(status)
    \/ \E b \in Bytes : SearchWriteButtons(b)
    \/ SearchTick

SpecSearch == SearchInit /\ [][SearchNext]_vars

\* C12: a slave cycle with directory size 1 emits no unicast and at most one
\* discovery broadcast; when an earlier discovery broadcast exists, it emits
\* one exactly if more than 100 ms have passed since that one; and any two
\* consecutive discovery broadcasts are more than 100 ms apart.
C12_SearchingBroadcastCadence ==
    /\ [](hist.prev >= 0 => hist.last - hist.prev > BroadcastPeriod)
    /\ [][ (SearchUpdate /\ ~node.isMaster /\ Len(node.peers) = 1)
           => /\ ~crashed'
              /\ \A k \in 1..Len(node'.out) : node'.out[k] = SlaveBroadcast
              /\ Len(node'.out) <= 1
              /\ hist.last >= 0
                 => (node'.out = <<SlaveBroadcast>>
                     <=> now - hist.last > BroadcastPeriod)
         ]_vars

\* a second discovery broadcast has just been emitted by a searching slave
C12_Witness ==
    /\ ~node.isMaster
    /\ Len(node.peers) = 1
    /\ node.out = <<SlaveBroadcast>>
    /\ hist.last = now
    /\ hist.prev >= 0

----------------------------------------------------------------------------
(* Claims on the receive path and on the directory size, one node *)

\* the reply broadcast of a master, as sendBroadcast() emits it
MasterBroadcast ==
    [dst |-> BROADCAST_MAC_MASTER,
     data |-> bytesAt("BROADCAST_MASTER_MESSAGE"),
     len |-> MasterMsgLen]

C14_SizeChangesOnlyByAddRemove ==
    [][ /\ (Len(node.peers) = 1 /\ Len(node'.peers) >= 2)
           => \E a \in Addrs \ PeerMacs(node) :
                 node'.peers = Append(node.peers, [peerID |-> 1, peer_mac |-> a])
        /\ (Len(node.peers) >= 2 /\ Len(node'.peers) = 1)
           => /\ Len(node.peers) = 2
              /\ node'.peers = <<node.peers[1]>>
              /\ node.peers[1].peer_mac = RoleBroadcast(node)
        /\ Update => Len(node'.peers) = Len(node.peers)
      ]_vars

\* the broadcast identity a role listens on for discovery, and the size of
\* the snapshot it expects
ListenIdentity(s) ==
    IF s.isMaster THEN BROADCAST_MAC_SLAVE ELSE BROADCAST_MAC_MASTER
ExpectedSize(s) ==
    IF s.isMaster THEN SlaveDataSize ELSE MasterCmdSize

\* C17: in every state in which the receive callback can run, a datagram
\* whose destination is not the identity the role listens on and whose
\* length is not the role's snapshot size changes nothing (directory,
\* snapshots, transport) and causes no send.
C17_UnrecognisedIgnored ==
    (~crashed /\ node.espCb)
    => \A src \in Macs, des \in RecvDests, len \in RecvLens :
         \A data \in Payloads(len) :
           (des # ListenIdentity(node) /\ len # ExpectedSize(node))
           => onReceive(fresh(node), src, des, data, len) = fresh(node)

\* a receive from a known sender has just left a master with a non-zero
\* last-received snapshot and a non-zero command, and sent nothing
C17_Witness ==
    /\ op.name = "onReceive"
    /\ op.hit
    /\ node.isMaster
    /\ node.out = <<>>
    /\ node.masterRecvData # ZeroSlaveData
    /\ node.masterCmdData # ZeroCmd

\* the buffer a role exposes to its consumer
Exposed(s) == IF s.isMaster THEN s.masterRecvData ELSE s.masterCmdData

\* loop(): the command consumer finds new data ...
newData(s) == s.masterCmdData # s.lastmasterCmdData

\* ... and copies it
consume(s) ==
    IF newData(s)
    THEN [s EXCEPT !.lastmasterCmdData = s.masterCmdData]
    ELSE s

\* C18: in every state in which the receive callback can run, two datagrams
\* of the expected snapshot size arriving one after the other leave the
\* exposed buffer at the payload of the first and then at the payload of
\* the second; a slave's consumer that polls after them finds new data at
\* most once, copies the second payload if it does, and finds none after.
C18_LastWriteWins ==
    (~crashed /\ node.espCb)
    => \A src \in Macs, des \in RecvDests :
         \A d1, d2 \in Payloads(ExpectedSize(node)) :
           LET r1 == onReceive(fresh(node), src, des, d1, ExpectedSize(node))
               r2 == onReceive(fresh(r1), src, des, d2, ExpectedSize(node))
           IN  /\ Exposed(r1) = d1
               /\ Exposed(r2) = d2
               /\ ~node.isMaster
                  => /\ newData(r2) => consume(r2).lastmasterCmdData = d2
                     /\ consume(r2).masterCmdData = d2
                     /\ ~newData(consume(r2))

\* the zero command has just arrived at a slave whose consumer had copied
\* an earlier, non-zero command
C18_Witness ==
    /\ op.name = "onReceive"
    /\ op.hit
    /\ ~node.isMaster
    /\ node.masterCmdData = ZeroCmd
    /\ node.lastmasterCmdData = SomeCmd

\* C19: after a begin() that failed at esp_now_init(), a cycle emits no
\* datagram and reads no directory entry (in particular none past the end
\* of the directory), and no callback emits a datagram.
C19_FailedBeginStaysSilent ==
    [][ hist.beginFailed
        => /\ SearchUpdate
              => /\ ~updateReadsPastEnd(node)
                 /\ ~crashed'
                 /\ node'.out = <<>>
           /\ ( \/ \E status \in {ESP_NOW_SEND_SUCCESS, ESP_NOW_SEND_FAIL} :
                     SearchSendDone(status)
                \/ \E src \in Macs, des \in RecvDests, len \in RecvLens :
                     \E data \in Payloads(len) :
                       SearchReceive(src, des, data, len) )
              => node'.out = <<>>
      ]_vars

----------------------------------------------------------------------------
(* Two nodes on one channel: node is the slave, other is the master.  A    *)
(* send the transport accepted is the head of its node's espQueue until    *)
(* its completion is reported; air tells what became of that head frame:   *)
(* "queued" (not yet transmitted), "delivered" or "lost".  A frame to a    *)
(* broadcast identity is not acknowledged and completes with success; a    *)
(* unicast completes with success if delivered and with failure if lost.   *)

PairInflight == 2       \* sends the transport of a node holds in a two-node run
PairMaxTicks == 2       \* how often the clock advances in a two-node run

PairMasterMac == <<2, 0, 0, 0, 0, 1>>
PairNodes == {"slave", "master"}

Get(who) == IF who = "slave" THEN node ELSE other
Mac(who) == IF who = "slave" THEN OwnMac ELSE PairMasterMac
Peer(who) == IF who = "slave" THEN "master" ELSE "slave"

\* the step leaves who's node as s and the other node alone
Put(who, s) ==
    IF who = "slave"
    THEN node' = s /\ other' = other
    ELSE other' = s /\ node' = node

\* the frame is one the receive callback of the node at mac gets to see
Reaches(dg, mac) ==
    dg.dst \in {BROADCAST_MAC_SLAVE, BROADCAST_MAC_MASTER} \/ dg.dst = mac

PairInit ==
    /\ node = [InitNode EXCEPT !.espDepth = PairInflight]
    /\ other = [InitNode EXCEPT !.espDepth = PairInflight]
    /\ now = 0
    /\ op = NoOp
    /\ crashed = FALSE
    /\ air = [slave |-> "queued", master |-> "queued"]
    /\ pc = [update |-> "idle", onReceive |-> "idle"]
    /\ hist = <<>>

\* setup(): espNow.begin(role)
PairBegin(who) ==
    /\ ~Get(who).espInit
    /\ Put(who, begin(fresh(Get(who)), who = "master", TRUE))
    /\ UNCHANGED <<now, op, crashed, air, pc, hist>>

\* loop(): espNow.update(), once setup() is through
PairUpdate(who) ==
    /\ Get(who).espInit
    /\ ~updateReadsPastEnd(Get(who))
    /\ Put(who, update(fresh(Get(who)), now, OwnMac))
    /\ UNCHANGED <<now, op, crashed, air, pc, hist>>

\* loop() of the slave: the input scan rewrites slaveSendData.button_data
PairWriteButtons(b) ==
    /\ node.espInit
    /\ Put("slave", [fresh(node) EXCEPT !.slaveSendData.button_data = b])
    /\ UNCHANGED <<now, op, crashed, air, pc, hist>>

\* the application of the master sets the command to distribute
PairWriteCommand(c) ==
    /\ other.espInit
    /\ Put("master", [fresh(other) EXCEPT !.masterCmdData = c])
    /\ UNCHANGED <<now, op, crashed, air, pc, hist>>

\* the radio transmits the oldest accepted send of a node; the other node's
\* receive callback runs if it is registered and the frame is for it
PairRadio(from) ==
    /\ Get(from).espQueue # <<>>
    /\ air[from] = "queued"
    /\ LET dg == Head(Get(from).espQueue)
           to == Peer(from)
       IN  IF Get(to).espCb /\ Reaches(dg, Mac(to))
           THEN /\ Put(to, onReceive(fresh(Get(to)), Mac(from),
                                     dg.dst, dg.data, dg.len))
                /\ air' = [air EXCEPT ![from] = "delivered"]
           ELSE /\ UNCHANGED <<node, other>>
                /\ air' = [air EXCEPT ![from] = "lost"]
    /\ UNCHANGED <<now, op, crashed, pc, hist>>

\* the oldest accepted send of a node is lost on the way
PairLose(from) ==
    /\ Get(from).espQueue # <<>>
    /\ air[from] = "queued"
    /\ air' = [air EXCEPT ![from] = "lost"]
    /\ UNCHANGED <<node, other, now, op, crashed, pc, hist>>

\* the send callback: the completion of the oldest accepted send
PairSendDone(from) ==
    /\ Get(from).espCb
    /\ Get(from).espQueue # <<>>
    /\ air[from] # "queued"
    /\ LET dg == Head(Get(from).espQueue)
           status == IF \/ air[from] = "delivered"
                        \/ dg.dst \in {BROADCAST_MAC_SLAVE, BROADCAST_MAC_MASTER}
                     THEN ESP_NOW_SEND_SUCCESS
                     ELSE ESP_NOW_SEND_FAIL
       IN  Put(from, onSend([fresh(Get(from)) EXCEPT !.espQueue = Tail(@)],
                            dg.dst, status))
    /\ air' = [air EXCEPT ![from] = "queued"]
    /\ UNCHANGED <<now, op, crashed, pc, hist>>

PairTick ==
    /\ now < PairMaxTicks * TickMs
    /\ now' = now + TickMs
    /\ node' = fresh(node)
    /\ other' = fresh(other)
    /\ UNCHANGED <<op, crashed, air, pc, hist>>

PairNext ==
    \/ \E who \in PairNodes : PairBegin(who)
    \/ \E who \in PairNodes : PairUpdate(who)
    \/ \E b \in Bytes : PairWriteButtons(b)
    \/ \E c \in master_cmd_t : PairWriteCommand(c)
    \/ \E from \in PairNodes : PairRadio(from)
    \/ \E from \in PairNodes : PairLose(from)
    \/ \E from \in PairNodes : PairSendDone(from)
    \/ PairTick

SpecPair == PairInit /\ [][PairNext]_vars

\* C15: when the master's reply broadcast is delivered to a slave whose
\* directory has size 1, the slave's directory gets size 2 with the master's
\* address at index 1, the master's directory holds the slave's address, and
\* a slave cycle that follows with a changed snapshot emits one unicast of
\* the snapshot to the master's address.
C15_DiscoveryHandshake ==
    [][ ( /\ PairRadio("master")
          /\ Head(other.espQueue) = MasterBroadcast
          /\ node.espCb
          /\ ~node.isMaster
          /\ Len(node.peers) = 1 )
        => /\ Len(node'.peers) = 2
           /\ node'.peers[2].peer_mac = PairMasterMac
           /\ OwnMac \in PeerMacs(other')
           /\ \A b \in Bytes :
                LET w == [fresh(node') EXCEPT !.slaveSendData.button_data = b]
                IN  slaveDataChanged(w)
                    => update(w, now, OwnMac).out =
                         <<Unicast(PairMasterMac, w.slaveSendData, SlaveDataSize)>>
      ]_vars

----------------------------------------------------------------------------
(* Claims on the loss and rediscovery of the master *)

\* C16: whatever snapshot S a slave sent before a send failure evicted its
\* master: the first paired cycle after the rediscovery, with the outgoing
\* snapshot at S again and the broadcast identity still at index 0, emits
\* one unicast of S to the peer at index 1.
C16_ResendAfterRediscovery ==
    [][ ( /\ SearchUpdate
          /\ hist.phase = "rediscovered"
          /\ Paired(node)
          /\ node.peers[1].peer_mac = BROADCAST_MAC_SLAVE
          /\ node.slaveSendData = hist.sent )
        => node'.out = <<Unicast(node.peers[2].peer_mac, hist.sent, SlaveDataSize)>>
      ]_vars

----------------------------------------------------------------------------
(* A node whose cycle and receive callback run statement by statement.     *)
(* update() is called from loop(); the callbacks run in the transport's    *)
(* task and can take steps between any two statements of update().  pc     *)
(* holds, for update() and for onReceive(), the source line of the next    *)
(* statement ("idle": not running); hist holds the arguments of the        *)
(* onReceive() call under way and the index i of the master's send loop.   *)
(* A master's onReceive(), addPeer() and onSend() with its removePeer()    *)
(* are single steps.  The two callbacks come from one task, so             *)
(* onSend() runs only while onReceive() is idle; the input scan and        *)
(* update() are both in loop(), so the snapshot is rewritten only while    *)
(* update() is idle.                                                       *)

RaceTickMs == 101       \* milliseconds per clock advance
RaceMaxTicks == 2       \* how often the clock advances

NoRecv == [src |-> OwnMac, des |-> OwnMac, data |-> ZeroCmd, len |-> 0]

UpdateAt(l) == ~crashed /\ pc.update = l
UpdateTo(l) == pc' = [pc EXCEPT !.update = l]
ReceiveAt(l) == ~crashed /\ pc.onReceive = l
ReceiveTo(l) == pc' = [pc EXCEPT !.onReceive = l]

\* onReceive() has set masterHasCommand and has not yet cleared it
Applying == pc.onReceive \in {"320", "322", "324"}

RaceInit ==
    /\ node = InitNode
    /\ now = 0
    /\ op = NoOp
    /\ crashed = FALSE
    /\ other = InitNode
    /\ air = <<>>
    /\ pc = [update |-> "idle", onReceive |-> "idle"]
    /\ hist = [recv |-> NoRecv, i |-> 0]

\* setup(): espNow.begin(role)
RaceBegin(isMaster) ==
    /\ UpdateAt("idle")
    /\ ~node.espInit
    /\ node' = begin(fresh(node), isMaster, TRUE)
    /\ UNCHANGED <<now, op, crashed, other, air, pc, hist>>

\* loop(): the input scan rewrites slaveSendData.button_data
RaceWriteButtons(b) ==
    /\ UpdateAt("idle")
    /\ node' = [node EXCEPT !.slaveSendData.button_data = b]
    /\ UNCHANGED <<now, op, crashed, other, air, pc, hist>>

\* loop(): espNow.update() is entered
update_call ==
    /\ UpdateAt("idle")
    /\ node' = fresh(node)
    /\ UpdateTo("231")
    /\ UNCHANGED <<now, op, crashed, other, air, hist>>

\* if (!isMaster && peers.size() == 1)
update_231 ==
    /\ UpdateAt("231")
    /\ UpdateTo(IF ~node.isMaster /\ Len(node.peers) = 1 THEN "233" ELSE "241")
    /\ UNCHANGED <<node, now, op, crashed, other, air, hist>>

\* if (millis() - broadcastMillis > 100) ... return
update_233 ==
    /\ UpdateAt("233")
    /\ UpdateTo(IF elapsedOver(now, node.broadcastMillis, BroadcastPeriod)
                THEN "235" ELSE "idle")
    /\ UNCHANGED <<node, now, op, crashed, other, air, hist>>

\* broadcastMillis = millis()
update_235 ==
    /\ UpdateAt("235")
    /\ node' = [node EXCEPT !.broadcastMillis = now]
    /\ UpdateTo("236")
    /\ UNCHANGED <<now, op, crashed, other, air, hist>>

\* sendBroadcast(); return
update_236 ==
    /\ UpdateAt("236")
    /\ node' = sendBroadcast(node)
    /\ UpdateTo("idle")
    /\ UNCHANGED <<now, op, crashed, other, air, hist>>

\* if (isMaster) { for (uint8_t i = 1; ... } else
update_241 ==
    /\ UpdateAt("241")
    /\ IF node.isMaster
       THEN hist' = [hist EXCEPT !.i = 1] /\ UpdateTo("254")
       ELSE hist' = hist /\ UpdateTo("261")
    /\ UNCHANGED <<node, now, op, crashed, other, air>>

\* i < peers.size(), or the loop and the cycle end
update_254 ==
    /\ UpdateAt("254")
    /\ IF hist.i < Len(node.peers)
       THEN hist' = hist /\ UpdateTo("256")
       ELSE hist' = [hist EXCEPT !.i = 0] /\ UpdateTo("idle")
    /\ UNCHANGED <<node, now, op, crashed, other, air>>

\* sendUnicast(peers[i].peer_mac, &masterCmdData, ...); i++; with i at or
\* beyond the size the read is past the end of the vector
update_256 ==
    /\ UpdateAt("256")
    /\ IF hist.i < Len(node.peers)
       THEN /\ crashed' = FALSE
            /\ node' = sendUnicast(node, node.peers[hist.i + 1].peer_mac,
                                   node.masterCmdData, MasterCmdSize)
       ELSE \/ crashed' = TRUE /\ node' = node
            \/ /\ crashed' = FALSE
               /\ \E junk \in JunkAddrs :
                     node' = sendUnicast(node, junk, node.masterCmdData,
                                         MasterCmdSize)
    /\ hist' = [hist EXCEPT !.i = (@ + 1) % Uint8Mod]
    /\ UpdateTo("254")
    /\ UNCHANGED <<now, op, other, air>>

\* if (masterHasCommand) return
update_261 ==
    /\ UpdateAt("261")
    /\ UpdateTo(IF node.masterHasCommand THEN "idle" ELSE "265")
    /\ UNCHANGED <<node, now, op, crashed, other, air, hist>>

\* if (memcmp(&slaveSendData, &lastSlaveSendData, ...) != 0)
update_265 ==
    /\ UpdateAt("265")
    /\ UpdateTo(IF slaveDataChanged(node) THEN "267" ELSE "idle")
    /\ UNCHANGED <<node, now, op, crashed, other, air, hist>>

\* sendUnicast(peers[1].peer_mac, &slaveSendData, ...); with fewer than two
\* entries the read is past the end of the vector
update_267 ==
    /\ UpdateAt("267")
    /\ IF Len(node.peers) >= 2
       THEN /\ crashed' = FALSE
            /\ node' = sendUnicast(node, node.peers[2].peer_mac,
                                   node.slaveSendData, SlaveDataSize)
       ELSE \/ crashed' = TRUE /\ node' = node
            \/ /\ crashed' = FALSE
               /\ \E junk \in JunkAddrs :
                     node' = sendUnicast(node, junk, node.slaveSendData,
                                         SlaveDataSize)
    /\ UpdateTo("268")
    /\ UNCHANGED <<now, op, other, air, hist>>

\* memcpy(&lastSlaveSendData, &slaveSendData, ...)
update_268 ==
    /\ UpdateAt("268")
    /\ node' = [node EXCEPT !.lastSlaveSendData = node.slaveSendData]
    /\ UpdateTo("idle")
    /\ UNCHANGED <<now, op, crashed, other, air, hist>>

\* the transport calls the receive callback
onReceive_call(src, des, data, len) ==
    /\ ReceiveAt("idle")
    /\ node.espCb
    /\ hist' = [hist EXCEPT !.recv = [src |-> src, des |-> des,
                                     data |-> data, len |-> len]]
    /\ ReceiveTo("288")
    /\ UNCHANGED <<node, now, op, crashed, other, air>>

\* if (isMaster) { the master's branch } else
onReceive_288 ==
    /\ ReceiveAt("288")
    /\ IF node.isMaster
       THEN /\ node' = onReceive(fresh(node), hist.recv.src, hist.recv.des,
                               hist.recv.data, hist.recv.len)
            /\ hist' = [hist EXCEPT !.recv = NoRecv]
            /\ ReceiveTo("idle")
       ELSE /\ node' = node
            /\ hist' = hist
            /\ ReceiveTo("309")
    /\ UNCHANGED <<now, op, crashed, other, air>>

\* if (memcmp(recv_info->des_addr, BROADCAST_MAC_MASTER, 6) == 0)
onReceive_309 ==
    /\ ReceiveAt("309")
    /\ ReceiveTo(IF hist.recv.des = BROADCAST_MAC_MASTER THEN "311" ELSE "317")
    /\ UNCHANGED <<node, now, op, crashed, other, air, hist>>

\* if (!esp_now_is_peer_exist(recv_info->src_addr))
onReceive_311 ==
    /\ ReceiveAt("311")
    /\ ReceiveTo(IF ~esp_now_is_peer_exist(node, hist.recv.src) THEN "313" ELSE "317")
    /\ UNCHANGED <<node, now, op, crashed, other, air, hist>>

\* addPeer(recv_info->src_addr)
onReceive_313 ==
    /\ ReceiveAt("313")
    /\ node' = addPeer(node, hist.recv.src)
    /\ ReceiveTo("317")
    /\ UNCHANGED <<now, op, crashed, other, air, hist>>

\* if (len == sizeof(master_cmd_t)) ... else the callback returns
onReceive_317 ==
    /\ ReceiveAt("317")
    /\ IF hist.recv.len = MasterCmdSize
       THEN hist' = hist /\ ReceiveTo("319")
       ELSE hist' = [hist EXCEPT !.recv = NoRecv] /\ ReceiveTo("idle")
    /\ UNCHANGED <<node, now, op, crashed, other, air>>

\* masterHasCommand = true
onReceive_319 ==
    /\ ReceiveAt("319")
    /\ node' = [node EXCEPT !.masterHasCommand = TRUE]
    /\ ReceiveTo("320")
    /\ UNCHANGED <<now, op, crashed, other, air, hist>>

\* if (memcmp(&masterCmdData, data, sizeof(master_cmd_t)) != 0)
onReceive_320 ==
    /\ ReceiveAt("320")
    /\ ReceiveTo(IF node.masterCmdData # hist.recv.data THEN "322" ELSE "324")
    /\ UNCHANGED <<node, now, op, crashed, other, air, hist>>

\* memcpy(&masterCmdData, data, sizeof(master_cmd_t))
onReceive_322 ==
    /\ ReceiveAt("322")
    /\ node' = [node EXCEPT !.masterCmdData = hist.recv.data]
    /\ ReceiveTo("324")
    /\ UNCHANGED <<now, op, crashed, other, air, hist>>

\* masterHasCommand = false; the callback returns
onReceive_324 ==
    /\ ReceiveAt("324")
    /\ node' = [node EXCEPT !.masterHasCommand = FALSE]
    /\ hist' = [hist EXCEPT !.recv = NoRecv]
    /\ ReceiveTo("idle")
    /\ UNCHANGED <<now, op, crashed, other, air>>

\* the send callback: the oldest accepted send completes
RaceSendDone(status) ==
    /\ ReceiveAt("idle")
    /\ node.espCb
    /\ node.espQueue # <<>>
    /\ node' = onSend([node EXCEPT !.espQueue = Tail(@)],
                      Head(node.espQueue).dst, status)
    /\ UNCHANGED <<now, op, crashed, other, air, pc, hist>>

RaceTick ==
    /\ ~crashed
    /\ now < RaceMaxTicks * RaceTickMs
    /\ now' = now + RaceTickMs
    /\ UNCHANGED <<node, op, crashed, other, air, pc, hist>>

RaceNext ==
    \/ \E isMaster \in BOOLEAN : RaceBegin(isMaster)
    \/ \E b \in Bytes : RaceWriteButtons(b)
    \/ update_call
    \/ update_231
    \/ update_233
    \/ update_235
    \/ update_236
    \/ update_241
    \/ update_254
    \/ update_256
    \/ update_261
    \/ update_265
    \/ update_267
    \/ update_268
    \/ onReceive_call(PairMasterMac, BROADCAST_MAC_MASTER,
                      bytesAt("BROADCAST_MASTER_MESSAGE"), MasterMsgLen)
    \/ \E data \in master_cmd_t :
          onReceive_call(PairMasterMac, OwnMac, data, MasterCmdSize)
    \/ onReceive_call(PairMasterMac, BROADCAST_MAC_SLAVE,
                      bytesAt("BROADCAST_SLAVE_MESSAGE"), SlaveMsgLen)
    \/ onReceive_288
    \/ onReceive_309
    \/ onReceive_311
    \/ onReceive_313
    \/ onReceive_317
    \/ onReceive_319
    \/ onReceive_320
    \/ onReceive_322
    \/ onReceive_324
    \/ \E status \in {ESP_NOW_SEND_SUCCESS, ESP_NOW_SEND_FAIL} :
          RaceSendDone(status)
    \/ RaceTick

SpecRace == RaceInit /\ [][RaceNext]_vars

\* C20: the slave's cycle never executes its snapshot unicast (line 267)
\* while onReceive() is between masterHasCommand = true and
\* masterHasCommand = false.
C20_NoSendWhileApplying ==
    [][ update_267 => ~Applying ]_vars

\* the directory of s starts with the broadcast identity of its role
BroadcastFirst(s) ==
    /\ s.peers # <<>>
    /\ s.peers[1].peer_mac = RoleBroadcast(s)

\* C21: with the callbacks interleaved between the statements of update(),
\* update() reads no directory position at or beyond the current size, in
\* a directory that still starts with the broadcast identity (so that a
\* slave entered the send branch with a master at index 1): the master's
\* loop reads peers[i] only with i < size, the slave reads peers[1] only
\* with size >= 2.
C21_NoReadPastEndWhenInterleaved ==
    [][ BroadcastFirst(node)
        => /\ update_256 => hist.i < Len(node.peers)
           /\ update_267 => Len(node.peers) >= 2
      ]_vars

----------------------------------------------------------------------------
(* Two nodes that keep running: the slave node and the master other, as    *)
(* above, with a clock that never stops, a transport that never refuses a  *)
(* send, and finitely many frames lost.  hist counts the frames lost and   *)
(* remembers that a send failure took the master out of the slave's        *)
(* directory and the slave has not been paired since (evicted), and that   *)
(* it has been paired again after that (healed).                           *)

LiveMaxLosses == 1      \* frames lost on the way in a run
LiveMaxTicks == 1       \* clock advances before the clock's origin is moved

\* the transport of s has room for the sends of a handler that leaves t
HasRoomFor(s, t) == Len(s.espQueue) + Len(t.out) <= s.espDepth

LiveInit ==
    /\ node = InitNode
    /\ other = InitNode
    /\ now = 0
    /\ op = NoOp
    /\ crashed = FALSE
    /\ air = [slave |-> "queued", master |-> "queued"]
    /\ pc = [update |-> "idle", onReceive |-> "idle"]
    /\ hist = [losses |-> 0, evicted |-> FALSE, healed |-> FALSE]

\* setup(): espNow.begin(role)
LiveBegin(who) ==
    /\ ~Get(who).espInit
    /\ Put(who, begin(fresh(Get(who)), who = "master", TRUE))
    /\ UNCHANGED <<now, op, crashed, air, pc, hist>>

\* loop(): espNow.update(), once setup() is through
LiveUpdate(who) ==
    /\ Get(who).espInit
    /\ ~updateReadsPastEnd(Get(who))
    /\ LET t == update(fresh(Get(who)), now, OwnMac)
       IN  /\ HasRoomFor(Get(who), t)
           /\ Put(who, t)
    /\ UNCHANGED <<now, op, crashed, air, pc, hist>>

\* loop() of the slave: the input scan rewrites slaveSendData.button_data
LiveWriteButtons(b) ==
    /\ node.espInit
    /\ Put("slave", [fresh(node) EXCEPT !.slaveSendData.button_data = b])
    /\ UNCHANGED <<now, op, crashed, air, pc, hist>>

\* the radio transmits the oldest accepted send of a node; the other node's
\* receive callback runs if it is registered and the frame is for it
LiveRadio(from) ==
    /\ Get(from).espQueue # <<>>
    /\ air[from] = "queued"
    /\ LET dg == Head(Get(from).espQueue)
           to == Peer(from)
           t == onReceive(fresh(Get(to)), Mac(from), dg.dst, dg.data, dg.len)
       IN  IF Get(to).espCb /\ Reaches(dg, Mac(to))
           THEN /\ HasRoomFor(Get(to), t)
                /\ Put(to, t)
                /\ air' = [air EXCEPT ![from] = "delivered"]
                /\ hist' = IF Paired(node')
                           THEN [hist EXCEPT !.evicted = FALSE,
                                             !.healed = @ \/ hist.evicted]
                           ELSE hist
           ELSE /\ UNCHANGED <<node, other, hist>>
                /\ air' = [air EXCEPT ![from] = "lost"]
    /\ UNCHANGED <<now, op, crashed, pc>>

\* the oldest accepted send of a node is lost on the way
LiveLose(from) ==
    /\ hist.losses < LiveMaxLosses
    /\ Get(from).espQueue # <<>>
    /\ air[from] = "queued"
    /\ air' = [air EXCEPT ![from] = "lost"]
    /\ hist' = [hist EXCEPT !.losses = @ + 1]
    /\ UNCHANGED <<node, other, now, op, crashed, pc>>

\* the send callback: the completion of the oldest accepted send
LiveSendDone(from) ==
    /\ Get(from).espCb
    /\ Get(from).espQueue # <<>>
    /\ air[from] # "queued"
    /\ LET dg == Head(Get(from).espQueue)
           status == IF \/ air[from] = "delivered"
                        \/ dg.dst \in {BROADCAST_MAC_SLAVE, BROADCAST_MAC_MASTER}
                     THEN ESP_NOW_SEND_SUCCESS
                     ELSE ESP_NOW_SEND_FAIL
       IN  Put(from, onSend([fresh(Get(from)) EXCEPT !.espQueue = Tail(@)],
                            dg.dst, status))
    /\ air' = [air EXCEPT ![from] = "queued"]
    /\ hist' = IF Paired(node) /\ ~Paired(node')
               THEN [hist EXCEPT !.evicted = TRUE]
               ELSE hist
    /\ UNCHANGED <<now, op, crashed, pc>>

\* millis() advances; only millis() - broadcastMillis is ever used, so past
\* LiveMaxTicks advances the origin of the clock is moved instead
LiveTick ==
    /\ IF now < LiveMaxTicks * TickMs
       THEN /\ now' = now + TickMs
            /\ node' = fresh(node)
       ELSE /\ now' = now
            /\ node' = [fresh(node) EXCEPT !.broadcastMillis =
                          IF @ >= TickMs THEN @ - TickMs ELSE 0]
    /\ other' = fresh(other)
    /\ UNCHANGED <<op, crashed, air, pc, hist>>

LiveNext ==
    \/ \E who \in PairNodes : LiveBegin(who)
    \/ \E who \in PairNodes : LiveUpdate(who)
    \/ \E b \in Bytes : LiveWriteButtons(b)
    \/ \E from \in PairNodes : LiveRadio(from)
    \/ \E from \in PairNodes : LiveLose(from)
    \/ \E from \in PairNodes : LiveSendDone(from)
    \/ LiveTick

\* loop() keeps running on both nodes, the radio keeps transmitting and the
\* transport keeps reporting completions, and the clock keeps advancing
LiveFairness ==
    /\ \A who \in PairNodes :
          /\ WF_vars(LiveBegin(who))
          /\ SF_vars(LiveUpdate(who))
          /\ SF_vars(LiveRadio(who))
          /\ WF_vars(LiveSendDone(who))
    /\ WF_vars(LiveTick)

SpecLive == LiveInit /\ [][LiveNext]_vars /\ LiveFairness

\* the slave is paired with the master's address at index 1
PairedWithMaster == Paired(node) /\ node.peers[2].peer_mac = PairMasterMac

\* C22: once a send failure has taken the master out of the slave's
\* directory, the slave is eventually paired again with the master's address
\* at index 1; and the failure handler itself issues no send.
C22_RepairsAfterEviction ==
    /\ hist.evicted ~> PairedWithMaster
    /\ [][ LiveSendDone("slave") => node'.out = <<>> ]_vars

\* a send failure has evicted the master and the slave is paired again
C22_Witness ==
    /\ hist.healed
    /\ ~hist.evicted
    /\ PairedWithMaster

\* C23: if from some point on the slave's outgoing snapshot stays at S (and,
\* as in every run of SpecLive, no frame is lost any more), then the
\* master's last-received snapshot is S again and again.
C23_MasterCatchesUp ==
    \A S \in slave_data_t :
       <>[](node.slaveSendData = S) => []<>(other.masterRecvData = S)

----------------------------------------------------------------------------
(* Claims on the directory operations, one node.  The node of Spec with    *)
(* the data left alone: roles begin and end, peers are added and removed,  *)
(* cycles run, discovery datagrams arrive and sends complete.              *)

DirNext ==
    \/ \E isMaster \in BOOLEAN, initOk \in BOOLEAN : Begin(isMaster, initOk)
    \/ End
    \/ \E a \in Macs : AddPeer(a)
    \/ \E a \in Macs : RemovePeer(a)
    \/ Update
    \/ \E src \in Macs, des \in RecvDests :
          \/ Receive(src, des, bytesAt("BROADCAST_SLAVE_MESSAGE"), SlaveMsgLen)
          \/ Receive(src, des, bytesAt("BROADCAST_MASTER_MESSAGE"), MasterMsgLen)
    \/ \E status \in {ESP_NOW_SEND_SUCCESS, ESP_NOW_SEND_FAIL} : SendDone(status)
    \/ Tick

SpecDir == Init /\ [][DirNext]_vars

\* the directory q without the entries of address a, the others in order
Without(q, a) == SelectSeq(q, LAMBDA e : e.peer_mac # a)

\* C24: in every reachable state and for every address a, removePeer(a)
\* leaves the directory without the entry of a and with all other entries
\* as they were and in their order, one entry fewer if a was present and
\* the same directory if it was not.
C24_RemoveKeepsOrder ==
    ~crashed
    => \A a \in Addrs :
          LET r == removePeer(fresh(node), a)
          IN  /\ r.peers = Without(node.peers, a)
              /\ Len(r.peers) = Len(node.peers)
                                  - (IF a \in PeerMacs(node) THEN 1 ELSE 0)
              /\ a \notin PeerMacs(node) => r.peers = node.peers

\* removePeer has taken the entry at index 2 out of a directory of three:
\* the broadcast identity and the peer numbered 1 are left at 0 and 1
C24_Witness ==
    /\ op.name = "removePeer"
    /\ op.hit
    /\ Len(node.peers) = 2
    /\ node.peers[1].peerID = 0
    /\ node.peers[1].peer_mac = RoleBroadcast(node)
    /\ node.peers[2].peerID = 1

\* all data snapshots of s are zero
SnapshotsZero(s) ==
    /\ s.slaveSendData = ZeroSlaveData
    /\ s.lastSlaveSendData = ZeroSlaveData
    /\ s.masterRecvData = ZeroSlaveData
    /\ s.masterCmdData = ZeroCmd
    /\ s.lastmasterCmdData = ZeroCmd

\* C25: in every reachable state, end() leaves an empty directory, zero
\* snapshots and no peer registered with the transport; and a begin(role)
\* after it whose transport initialisation succeeds leaves a directory of
\* exactly one entry, the broadcast identity of the role, registered with
\* the transport.
C25_EndThenBegin ==
    ~crashed
    => LET e == end(fresh(node))
       IN  /\ e.peers = <<>>
           /\ SnapshotsZero(e)
           /\ e.espPeers = {}
           /\ \A isMaster \in BOOLEAN :
                 LET b == begin(e, isMaster, TRUE)
                 IN  /\ Len(b.peers) = 1
                     /\ b.peers[1].peer_mac = RoleBroadcast(b)
                     /\ b.isMaster = isMaster
                     /\ b.espPeers = {RoleBroadcast(b)}

\* a node that searched as a slave (broadcastMillis is left from then) was
\* ended and has begun again as a master
C25_Witness ==
    /\ node.espInit
    /\ node.isMaster
    /\ node.broadcastMillis > 0
    /\ Len(node.peers) = 1
    /\ node.peers[1].peer_mac = BROADCAST_MAC_MASTER

\* C26: in every reachable state the addresses registered as peers with the
\* transport are exactly the addresses held in the peer directory.
C26_TransportMatchesDirectory ==
    node.espPeers = PeerMacs(node)

\* a send failure has just evicted a learned peer from a directory of three
C26_Witness ==
    /\ op.name = "onSend"
    /\ op.hit
    /\ ~op.ok
    /\ Len(node.peers) = 2
    /\ Cardinality(node.espPeers) = 2

----------------------------------------------------------------------------
(* Claims on what a master emits, one node *)

\* the number of datagrams in out that go to a broadcast identity
Broadcasts(out) ==
    Cardinality({k \in 1..Len(out) :
                    out[k].dst \in {BROADCAST_MAC_SLAVE, BROADCAST_MAC_MASTER}})

\* C27: in every reachable state of a master, a cycle emits no datagram to a
\* broadcast identity, and no datagram at all with a directory of size 1;
\* the receive handler emits one broadcast, the master's discovery reply,
\* for a datagram addressed to the slaves' broadcast identity and none for
\* any other; and the send callback emits nothing.
C27_MasterBroadcastsOnlyInReply ==
    (~crashed /\ node.isMaster)
    => /\ LET u == update(fresh(node), now, OwnMac)
          IN  /\ Broadcasts(u.out) = 0
              /\ Len(node.peers) = 1 => u.out = <<>>
       /\ \A src \in Macs, des \in RecvDests, len \in RecvLens :
             \A data \in Payloads(len) :
                LET r == onReceive(fresh(node), src, des, data, len)
                IN  IF des = BROADCAST_MAC_SLAVE
                    THEN r.out = <<MasterBroadcast>>
                    ELSE r.out = <<>>
       /\ \A a \in Addrs, status \in {ESP_NOW_SEND_SUCCESS, ESP_NOW_SEND_FAIL} :
             onSend(fresh(node), a, status).out = <<>>

\* a master with a learned peer has just run a cycle: command unicasts only
C27_Witness ==
    /\ node.isMaster
    /\ Len(node.peers) >= 2
    /\ node.out # <<>>
    /\ \A k \in 1..Len(node.out) : node.out[k].len = MasterCmdSize
    /\ Broadcasts(node.out) = 0

====
